---- MODULE Spec2Model ----
(***************************************************************************)
(* The voice interaction state machine of the assistant: VoiceAgent        *)
(* (main.py), the transcription service SpeechToText (speech_to_text.py),  *)
(* the synthesis service TextToSpeech (text_to_speech.py), the Planner     *)
(* boundary AgentBrain (agent_brain.py) with its conversation history, and *)
(* the file tools of WindsurfController (windsurf_controller.py).          *)
(*                                                                         *)
(* Threads: the Qt main thread (mic button, queued signals, timers, exit), *)
(* the STT recognition workers (process_audio, which run the text          *)
(* callbacks themselves) and the TTS worker.  A handler of the main thread *)
(* is one step; a recognition worker takes a step to dequeue an audio      *)
(* buffer, a step to run its callback (on_speech_recognized: up to its     *)
(* write of is_listening), a step from there to the Planner call, and a    *)
(* step when the Planner call returns.                                     *)
(***************************************************************************)
EXTENDS Naturals, Sequences, FiniteSets, Bags

VARIABLES agent, stt, tts, qt, brain, hist, fs

vars == <<agent, stt, tts, qt, brain, hist, fs>>

(* ------------------------------ bounds -------------------------------- *)

\* audio buffers the user produces in one run of Spec
MaxUtter == 2
\* audio buffers the user produces in one run of LongSpec
LongUtter == 3
\* mic-button presses in one run
MaxPress == 1
\* recognition worker threads that may be alive at once
MaxWorkers == 3
\* tool calls the model asks for in one reply
MaxTools == 1
\* process_input calls in one run of BrainSpec
MaxCalls == 6
\* entries on the disk the file tools work on
MaxEntries == 3

(* ------------------------------ strings ------------------------------- *)

NoneText == "<None>"
Confirmation == "Yes, I'm listening"
GoodbyeMessage == "Goodbye! Have a great day!"
Apology == "I apologize, but I encountered an error processing your request. Please try again."
NormalReply == "It's 3pm"
EmptyReply == ""
BlankReply == "  "
HiSurya == "Hi Surya"
Goodbye == "Goodbye"
WhatTime == "time"

\* The characters of a string: the code looks into the recognized texts
\* (lower, in) and into the texts it hands to speak (strip).
Chars(s) ==
    CASE s = HiSurya ->
           <<"H", "i", " ", "S", "u", "r", "y", "a">>
      [] s = Goodbye ->
           <<"G", "o", "o", "d", "b", "y", "e">>
      [] s = WhatTime ->
           <<"t", "i", "m", "e">>
      [] s = EmptyReply ->
           << >>
      [] s = BlankReply ->
           <<" ", " ">>
      [] s = NormalReply ->
           <<"I", "t", "'", "s", " ", "3", "p", "m">>
      [] s = Confirmation ->
           <<"Y", "e", "s", ",", " ", "I", "'", "m", " ", "l", "i", "s",
           "t", "e", "n", "i", "n", "g">>
      [] s = GoodbyeMessage ->
           <<"G", "o", "o", "d", "b", "y", "e", "!", " ", "H", "a", "v",
           "e", " ", "a", " ", "g", "r", "e", "a", "t", " ", "d", "a", "y",
           "!">>
      [] s = Apology ->
           <<"I", " ", "a", "p", "o", "l", "o", "g", "i", "z", "e", ",",
           " ", "b", "u", "t", " ", "I", " ", "e", "n", "c", "o", "u", "n",
           "t", "e", "r", "e", "d", " ", "a", "n", " ", "e", "r", "r", "o",
           "r", " ", "p", "r", "o", "c", "e", "s", "s", "i", "n", "g", " ",
           "y", "o", "u", "r", " ", "r", "e", "q", "u", "e", "s", "t", ".",
           " ", "P", "l", "e", "a", "s", "e", " ", "t", "r", "y", " ", "a",
           "g", "a", "i", "n", ".">>

\* str.lower() on one character
LowerChar(c) ==
    CASE c = "G" -> "g"
      [] c = "H" -> "h"
      [] c = "I" -> "i"
      [] c = "P" -> "p"
      [] c = "S" -> "s"
      [] c = "Y" -> "y"
      [] OTHER -> c

lower(cs) == [i \in 1..Len(cs) |-> LowerChar(cs[i])]

\* Python's `k in t` on strings
Contains(k, t) ==
    \E i \in 0..Len(t) : i + Len(k) <= Len(t) /\ SubSeq(t, i + 1, i + Len(k)) = k

RECURSIVE LStrip(_)
LStrip(cs) == IF cs # << >> /\ Head(cs) = " " THEN LStrip(Tail(cs)) ELSE cs

RECURSIVE RStrip(_)
RStrip(cs) ==
    IF cs # << >> /\ cs[Len(cs)] = " " THEN RStrip(SubSeq(cs, 1, Len(cs) - 1)) ELSE cs

\* str.strip()
strip(cs) == RStrip(LStrip(cs))

\* VoiceAgent.wake_words and exit_keywords: the Latin-script entries (no modelled
\* utterance holds a Devanagari character, so the other entries never match)
wake_words == { <<"s", "u", "r", "y", "a">> }

exit_keywords ==
    { <<"b", "y", "e">>, <<"g", "o", "o", "d", "b", "y", "e">>, <<"e", "x", "i", "t">>,
      <<"q", "u", "i", "t">>, <<"s", "h", "u", "t", "d", "o", "w", "n">>,
      <<"s", "h", "u", "t", " ", "d", "o", "w", "n">>, <<"c", "l", "o", "s", "e">>,
      <<"s", "t", "o", "p">> }

check_wake_word(text) == \E k \in wake_words : Contains(k, lower(Chars(text)))

check_exit_keywords(text) == \E k \in exit_keywords : Contains(k, lower(Chars(text)))

\* what the user may say into the microphone
Utterances == {HiSurya, Goodbye, WhatTime}

\* recognize_google(audio) on a buffer that holds the phrase `audio`: the text,
\* or sr.UnknownValueError, or sr.RequestError
Heard == {"text", "UnknownValueError", "RequestError"}

(* ------------------------------ world --------------------------------- *)

World == [agent |-> agent, stt |-> stt, tts |-> tts, qt |-> qt, brain |-> brain, hist |-> hist]

\* an uncaught exception leaves the handler: the rest of it is skipped
Raised(w) == w.hist.raising # "none"

Raise(w, what) == [w EXCEPT !.hist.raising = what, !.hist.uncaught = what]

status_changed(w, s) == [w EXCEPT !.agent.status = s]

WakeStatus == "Say 'Hello Surya' to activate"

(* --------------------------- SpeechToText ----------------------------- *)

\* The live process_audio threads are a bag of [pc, cb, text]: pc is where the
\* thread is ("idle" in its loop, "rec" recognizing a dequeued buffer,
\* "stopping" inside on_speech_recognized before it stops the service, "planner"
\* inside on_speech_recognized waiting for the Planner), cb the callback its
\* closure holds, text the recognized text.
Thread(callback) == [pc |-> "idle", cb |-> callback, text |-> ""]

Spawn(ws, t) == ws (+) SetToBag({t})

Kill(ws, t) == ws (-) SetToBag({t})

Become(ws, t, u) == Kill(ws, t) (+) SetToBag({u})

\* SpeechToText.start_listening: a new process_audio thread with `callback`
stt_start_listening(w, callback) ==
    IF w.stt.is_listening THEN w
    ELSE IF BagCardinality(w.stt.workers) >= MaxWorkers
         THEN [w EXCEPT !.hist.overflow = TRUE]
    ELSE [w EXCEPT !.stt.is_listening = TRUE,
                   !.stt.stop_event = FALSE,
                   !.stt.capturing = TRUE,
                   !.stt.workers = Spawn(@, Thread(callback))]

\* stop_listening that forgets `self.is_listening = False`
stt_stop_listening_keeps_flag(w) ==
    IF ~w.stt.is_listening THEN w
    ELSE [w EXCEPT !.stt.stop_event = TRUE,
                   !.stt.capturing = FALSE,
                   !.stt.audio_queue = << >>]

\* SpeechToText.stop_listening
stt_stop_listening(w) ==
    IF ~w.stt.is_listening THEN w
    ELSE [w EXCEPT !.stt.is_listening = FALSE,
                   !.stt.stop_event = TRUE,
                   !.stt.capturing = FALSE,
                   !.stt.audio_queue = << >>]

(* --------------------------- TextToSpeech ----------------------------- *)

\* TextToSpeech.speak
speak(w, text) ==
    IF text = NoneText THEN Raise(w, "speak")
    ELSE IF strip(Chars(text)) # << >>
         THEN [w EXCEPT !.tts.speech_queue = Append(@, text),
                        !.hist.goodbyes = IF text = GoodbyeMessage THEN @ + 1 ELSE @]
         ELSE w

\* TextToSpeech.stop_speaking
\* (hist.stale: the worker holds a dequeued text it has not started to play)
stop_speaking(w) ==
    [w EXCEPT !.tts.current_process = "none",
              !.tts.speech_queue = << >>,
              !.tts.is_speaking = FALSE,
              !.hist.stale = (w.tts.pc = "got")]

\* TextToSpeech.shutdown
tts_shutdown(w) ==
    stop_speaking([w EXCEPT !.tts.stop_event = TRUE,
                            !.tts.speech_queue = Append(@, NoneText),
                            !.hist.tts_shutdowns = @ + 1])

(* ----------------------------- AgentBrain ------------------------------ *)

\* AgentBrain.max_history
max_history == 20

\* AgentBrain.system_prompt as __init__ sets it, and a prompt a caller sets
DefaultPrompt == "You are Surya"
OtherPrompt == "You are brief"
Prompts == {DefaultPrompt, OtherPrompt}

\* a message of conversation_history: its role, the tool calls it carries, and
\* its content (kept for system messages only)
Msg(role) == [role |-> role, tool_calls |-> 0, content |-> ""]

\* {"role": "system", "content": prompt}
SystemMsg(prompt) == [role |-> "system", tool_calls |-> 0, content |-> prompt]

\* the assistant message of a reply that asks for n tool calls
ToolCallMsg(n) == [role |-> "assistant", tool_calls |-> n, content |-> ""]

\* a truncation that keeps the last max_history messages only
truncate_drops_first(h) ==
    IF Len(h) > max_history
    THEN SubSeq(h, Len(h) - max_history + 1, Len(h))
    ELSE h

\* [h[0]] + h[-(max_history-1):]
truncate(h) ==
    IF Len(h) > max_history
    THEN <<h[1]>> \o SubSeq(h, Len(h) - (max_history - 1) + 1, Len(h))
    ELSE h

\* process_input up to the first API call: the user message, the truncation
process_input_begin(h) == truncate(Append(h, Msg("user")))

\* the tool results appended for n tool calls
ToolResults(n) == [i \in 1..n |-> Msg("tool")]

\* AgentBrain.clear_history
clear_history(b) == [b EXCEPT !.history = <<SystemMsg(b.system_prompt)>>]

\* AgentBrain.set_system_prompt
set_system_prompt(b, prompt) ==
    [b EXCEPT !.system_prompt = prompt, !.history[1] = SystemMsg(prompt)]

(* -------------------------- WindsurfController ------------------------- *)

\* names of directory entries, and the paths a tool call can name
Names == {"file1.txt", "subfolder"}
Paths ==
    {<<a>> : a \in Names}
        \cup {<<a, b>> : a, b \in Names}
        \cup {<<a, b, c>> : a, b, c \in Names}

\* os.path.dirname
dirname(p) == SubSeq(p, 1, Len(p) - 1)

\* p is q or an ancestor of q
IsPrefix(p, q) == Len(p) <= Len(q) /\ SubSeq(q, 1, Len(p)) = p

\* p and its ancestors below the root
Prefixes(p) == {SubSeq(p, 1, n) : n \in 1..Len(p)}

\* os.path.exists, os.path.isdir (the root always is a directory)
path_exists(f, p) == p = << >> \/ p \in f.dirs \/ p \in f.files
isdir(f, p) == p = << >> \/ p \in f.dirs

\* the entries of directory p
listdir(f, p) == {q \in f.dirs \cup f.files : Len(q) = Len(p) + 1 /\ IsPrefix(p, q)}

\* p and everything below it
Tree(f, p) == {q \in f.dirs \cup f.files : IsPrefix(p, q)}

\* what a call returns: {"success": ...}, with the number of entries it removed
Returned(f, op, recursive, success, removed) ==
    [f EXCEPT !.last = [op |-> op, recursive |-> recursive, success |-> success,
                        removed |-> removed]]

\* os.makedirs(p, exist_ok=True) raises when p or an ancestor is a file
makedirs_raises(f, p) == Prefixes(p) \cap f.files # {}

\* WindsurfController.create_folder
create_folder(f, p) ==
    IF makedirs_raises(f, p)
    THEN Returned(f, "create_folder", FALSE, FALSE, 0)
    ELSE Returned([f EXCEPT !.dirs = @ \cup Prefixes(p)], "create_folder", FALSE, TRUE, 0)

\* WindsurfController.create_file: the parent is made first, then open(p, 'w')
create_file(f, p) ==
    IF makedirs_raises(f, dirname(p))
    THEN Returned(f, "create_file", FALSE, FALSE, 0)
    ELSE LET g == [f EXCEPT !.dirs = @ \cup Prefixes(dirname(p))]
         IN  IF p \in g.dirs
             THEN Returned(g, "create_file", FALSE, FALSE, 0)
             ELSE Returned([g EXCEPT !.files = @ \cup {p}], "create_file", FALSE, TRUE, 0)

\* WindsurfController.delete_file
delete_file(f, p) ==
    IF ~path_exists(f, p) \/ isdir(f, p)
    THEN Returned(f, "delete_file", FALSE, FALSE, 0)
    ELSE Returned([f EXCEPT !.files = @ \ {p}], "delete_file", FALSE, TRUE, 1)

\* a delete_folder that removes the tree whatever recursive says
delete_folder_always_rmtree(f, p, recursive) ==
    IF ~path_exists(f, p) \/ ~isdir(f, p)
    THEN Returned(f, "delete_folder", recursive, FALSE, 0)
    ELSE Returned([f EXCEPT !.dirs = @ \ Tree(f, p), !.files = @ \ Tree(f, p)],
                  "delete_folder", recursive, TRUE, Cardinality(Tree(f, p)))

\* WindsurfController.delete_folder: shutil.rmtree removes the tree, os.rmdir
\* raises OSError on a directory that is not empty
delete_folder(f, p, recursive) ==
    IF ~path_exists(f, p) \/ ~isdir(f, p)
    THEN Returned(f, "delete_folder", recursive, FALSE, 0)
    ELSE IF recursive
    THEN Returned([f EXCEPT !.dirs = @ \ Tree(f, p), !.files = @ \ Tree(f, p)],
                  "delete_folder", recursive, TRUE, Cardinality(Tree(f, p)))
    ELSE IF listdir(f, p) # {}
    THEN Returned(f, "delete_folder", recursive, FALSE, 0)
    ELSE Returned([f EXCEPT !.dirs = @ \ {p}], "delete_folder", recursive, TRUE, 1)

(* ----------------------------- VoiceAgent ----------------------------- *)

\* main.py:144 calls self.tts.stop(), and TextToSpeech defines no method `stop`
tts_stop(w) == Raise(w, "AttributeError")

\* stop_listening that forgets `self.is_listening = False`
stop_listening_keeps_flag(w) ==
    IF ~w.agent.is_listening THEN w
    ELSE tts_stop(stt_stop_listening([w EXCEPT !.agent.restart_timer = FALSE,
                                               !.agent.auto_listen = FALSE]))

\* VoiceAgent.stop_listening
stop_listening(w) ==
    IF ~w.agent.is_listening THEN w
    ELSE LET a == stt_stop_listening([w EXCEPT !.agent.restart_timer = FALSE,
                                               !.agent.is_listening = FALSE,
                                               !.agent.auto_listen = FALSE])
             b == tts_stop(a)
         IN  IF Raised(b) THEN b
             ELSE IF b.agent.wake_word_mode THEN status_changed(b, WakeStatus)
             ELSE status_changed(b, "Stopped")

\* VoiceAgent.start_listening
start_listening(w) ==
    IF w.agent.is_listening /\ ~w.agent.wake_word_mode THEN w
    ELSE LET a == stt_stop_listening(w)
             b == [a EXCEPT !.agent.is_listening = TRUE,
                            !.agent.wake_word_mode = FALSE,
                            !.agent.auto_listen = TRUE,
                            !.agent.status = "Listening..."]
         IN  stt_start_listening(b, "on_speech_recognized")

\* VoiceAgent.toggle_listening
toggle_listening(w) ==
    IF w.agent.wake_word_mode
    THEN start_listening([w EXCEPT !.agent.wake_word_mode = FALSE])
    ELSE IF w.agent.is_listening THEN stop_listening(w)
    ELSE start_listening(w)

\* VoiceAgent.start_wake_word_listening
start_wake_word_listening(w) ==
    IF w.agent.is_listening THEN w
    ELSE stt_start_listening([w EXCEPT !.agent.is_listening = TRUE,
                                       !.agent.wake_word_mode = TRUE,
                                       !.agent.status = WakeStatus],
                             "on_wake_word_detected")

\* VoiceAgent.delayed_activate_listening: QTimer.singleShot(2500, activate_listening)
delayed_activate_listening(w) == [w EXCEPT !.qt.act_timers = @ + 1]

\* VoiceAgent.activate_listening
activate_listening(w) ==
    LET a == stt_stop_listening(w)
        b == [a EXCEPT !.agent.is_listening = TRUE,
                       !.agent.wake_word_mode = FALSE,
                       !.agent.auto_listen = TRUE,
                       !.agent.is_processing = FALSE,
                       !.agent.status = "Listening..."]
    IN  stt_start_listening(b, "on_speech_recognized")

\* VoiceAgent.exit_application: QTimer.singleShot(3000, perform_shutdown)
exit_application(w) ==
    LET a == speak(status_changed(w, "Shutting down..."), GoodbyeMessage)
    IN  [a EXCEPT !.qt.exit_timers = @ + 1, !.hist.exit_heard = TRUE]

\* VoiceAgent.shutdown
shutdown(w) ==
    LET a == stop_listening(w)
    IN  IF Raised(a) THEN a ELSE tts_shutdown(a)

\* VoiceAgent.perform_shutdown: shutdown(), then QApplication.quit()
perform_shutdown(w) ==
    LET a == shutdown([w EXCEPT !.hist.shutdowns = @ + 1])
    IN  IF Raised(a) THEN a ELSE [a EXCEPT !.qt.app = "quit"]

\* VoiceAgent.on_wake_word_detected (runs in the recognition worker)
on_wake_word_detected(w, text) ==
    IF check_wake_word(text)
    THEN LET a == stt_stop_listening(w)
             b == [a EXCEPT !.agent.is_listening = FALSE,
                            !.agent.wake_word_mode = FALSE,
                            !.agent.auto_listen = TRUE,
                            !.agent.is_processing = FALSE,
                            !.agent.status = "Activating..."]
             c == speak(b, Confirmation)
         IN  [c EXCEPT !.qt.mainq = Append(@, "activate")]
    ELSE w

\* VoiceAgent.on_speech_recognized up to `self.is_listening = False`
\* (runs in recognition thread t, next to the handlers of the main thread)
on_speech_recognized(w, t, text) ==
    IF w.agent.is_processing THEN w
    ELSE IF check_exit_keywords(text) THEN exit_application(w)
    ELSE [w EXCEPT !.agent.is_processing = TRUE,
                   !.agent.is_listening = FALSE,
                   !.stt.workers = Become(@, t, [t EXCEPT !.pc = "stopping"])]

\* VoiceAgent.on_speech_recognized from `self.stt.stop_listening()` up to the
\* call of brain.process_input (thread t then waits for the Planner)
on_speech_recognized_stops(w, t) ==
    LET a == stt_stop_listening(w)
        b == stop_speaking(status_changed(a, "Thinking..."))
    IN  [b EXCEPT !.stt.workers = Become(@, t, [t EXCEPT !.pc = "planner"]),
                  !.brain.history = process_input_begin(@)]

\* the stream_callback closure of on_speech_recognized:
\* self.current_response += chunk, a TypeError when chunk is None
stream_callback_raises(chunk) == chunk = NoneText

\* process_input without its try/except: a failure leaves no reply
process_input_propagates(api) ==
    IF api.raises \/ stream_callback_raises(api.content) THEN NoneText
    ELSE api.content

\* AgentBrain.process_input: the reply, or the apology when anything raises
process_input(api) ==
    IF api.raises \/ stream_callback_raises(api.content) THEN Apology
    ELSE api.content

\* AgentBrain.process_input from the first API call on: with tool calls the
\* assistant message and the tool results are appended and `raises` is the
\* second API call failing; the final assistant message is appended unless
\* something raised
process_input_end(h, api) ==
    LET a == IF api.raises /\ api.tools = 0 THEN h
             ELSE IF api.tools > 0
                  THEN Append(h, ToolCallMsg(api.tools)) \o ToolResults(api.tools)
                  ELSE h
    IN  IF api.raises \/ stream_callback_raises(api.content) THEN a
        ELSE Append(a, Msg("assistant"))

\* VoiceAgent.on_speech_recognized from the return of brain.process_input
speak_response(w, response) == speak(status_changed(w, "Speaking..."), response)

\* VoiceAgent.auto_restart_listening
auto_restart_listening(w) ==
    IF w.agent.auto_listen /\ ~w.agent.is_listening THEN start_listening(w) ELSE w

\* on_speaking_changed that goes back to wake-word mode when speaking ends
\* and nothing is to be re-armed
on_speaking_changed_back_to_wake_word(w, is_speaking) ==
    IF is_speaking THEN status_changed(w, "Speaking...")
    ELSE LET a == [w EXCEPT !.agent.is_processing = FALSE]
         IN  IF a.agent.auto_listen /\ ~a.agent.is_listening
             THEN [a EXCEPT !.agent.restart_timer = TRUE]
             ELSE status_changed([a EXCEPT !.agent.wake_word_mode = TRUE], WakeStatus)

\* VoiceAgent.on_speaking_changed
on_speaking_changed(w, is_speaking) ==
    IF is_speaking THEN status_changed(w, "Speaking...")
    ELSE LET a == [w EXCEPT !.agent.is_processing = FALSE]
         IN  IF a.agent.auto_listen /\ ~a.agent.is_listening
             THEN [a EXCEPT !.agent.restart_timer = TRUE]
             ELSE IF a.agent.wake_word_mode THEN status_changed(a, WakeStatus)
             ELSE status_changed(a, "Ready")

\* on_stt_error that also gives up listening
on_stt_error_stops(w) ==
    status_changed([w EXCEPT !.agent.is_listening = FALSE], "Error - Check microphone")

\* VoiceAgent.on_stt_error
on_stt_error(w) == status_changed(w, "Error - Check microphone")

(* -------------------- the worker threads' loops ----------------------- *)

\* process_audio: audio_queue.get() and recognize_google(audio); the callback
\* follows in process_audio_callback, the two except branches end here
process_audio_get(w, t, heard) ==
    LET a == [w EXCEPT !.stt.audio_queue = Tail(@)]
    IN  CASE heard = "text" ->
                 [a EXCEPT !.stt.workers =
                     Become(@, t, [t EXCEPT !.pc = "rec", !.text = Head(w.stt.audio_queue)])]
          [] heard = "UnknownValueError" -> a
          [] OTHER -> on_stt_error(a)

\* process_audio: `if text.strip(): callback(text)`
process_audio_callback(w, t) ==
    LET u == Thread(t.cb)
        a == [w EXCEPT !.stt.workers = Become(@, t, u)]
    IN  IF strip(Chars(t.text)) = << >> THEN a
        ELSE IF t.cb = "on_wake_word_detected" THEN on_wake_word_detected(a, t.text)
        ELSE on_speech_recognized(a, u, t.text)

\* process_audio: `while not self.stop_event.is_set()` ends the thread
process_audio_exit(w, t) == [w EXCEPT !.stt.workers = Kill(@, t)]

\* on_speech_recognized resumes in thread t when brain.process_input returns
process_input_returns(w, t, api) ==
    LET a == speak_response([w EXCEPT !.brain.history = process_input_end(@, api)],
                            process_input(api))
    IN  IF Raised(a) THEN [a EXCEPT !.stt.workers = Kill(@, t)]
        ELSE [a EXCEPT !.stt.workers = Become(@, t, Thread(t.cb))]

\* the speaking callback is speaking_signal.emit: queued to the main thread
\* (hist.speaking: the last notification; hist.repeated: one came twice in a row)
speaking_callback(w, b) ==
    [w EXCEPT !.qt.mainq = Append(@, IF b THEN "speaking_true" ELSE "speaking_false"),
              !.hist.speaking = b,
              !.hist.repeated = @ \/ (w.hist.speaking = b)]

\* TextToSpeech worker: text = speech_queue.get(), is_speaking = True,
\* speaking_callback(True); the worker now holds the text
worker_dequeue(w) ==
    LET text == Head(w.tts.speech_queue)
        a == [w EXCEPT !.tts.speech_queue = Tail(@), !.hist.stale = FALSE,
                       !.hist.tts_error = FALSE]
    IN  IF text = NoneText THEN [a EXCEPT !.tts.pc = "dead"]
        ELSE speaking_callback([a EXCEPT !.tts.is_speaking = TRUE, !.tts.pc = "got"], TRUE)

\* a worker whose except branch forgets speaking_callback(False)
worker_popen_silent_failure(w, popen_ok) ==
    IF popen_ok
    THEN [w EXCEPT !.tts.current_process = "running", !.tts.pc = "playing"]
    ELSE [w EXCEPT !.tts.is_speaking = FALSE,
                   !.tts.current_process = "none",
                   !.tts.pc = "idle",
                   !.hist.tts_error = TRUE]

\* TextToSpeech worker: current_process = Popen(['say', ...]); when it raises,
\* the except branch logs "TTS error" and calls speaking_callback(False)
worker_popen(w, popen_ok) ==
    IF popen_ok
    THEN [w EXCEPT !.tts.current_process = "running", !.tts.pc = "playing"]
    ELSE speaking_callback([w EXCEPT !.tts.is_speaking = FALSE,
                                     !.tts.current_process = "none",
                                     !.tts.pc = "idle",
                                     !.hist.tts_error = TRUE], FALSE)

\* a worker that notifies speaking(False) twice when playback ends
worker_finish_notifies_twice(w) ==
    speaking_callback(speaking_callback([w EXCEPT !.tts.current_process = "none",
                                                  !.tts.is_speaking = FALSE,
                                                  !.tts.pc = "idle"], FALSE), FALSE)

\* TextToSpeech worker: current_process.wait() returns (or raises), callback(False)
worker_finish(w) ==
    speaking_callback([w EXCEPT !.tts.current_process = "none",
                                !.tts.is_speaking = FALSE,
                                !.tts.pc = "idle"], FALSE)

(* ----------------------------- the machine ---------------------------- *)

\* VoiceAgent.__init__ before start_wake_word_listening()
Constructed ==
    [agent |-> [is_listening |-> FALSE, is_processing |-> FALSE, wake_word_mode |-> TRUE,
                auto_listen |-> FALSE, status |-> "", restart_timer |-> FALSE],
     stt |-> [is_listening |-> FALSE, stop_event |-> FALSE, capturing |-> FALSE,
              audio_queue |-> << >>, workers |-> EmptyBag],
     tts |-> [is_speaking |-> FALSE, speech_queue |-> << >>, stop_event |-> FALSE,
              current_process |-> "none", pc |-> "idle"],
     qt |-> [mainq |-> << >>, act_timers |-> 0, exit_timers |-> 0, app |-> "running"],
     brain |-> [history |-> <<SystemMsg(DefaultPrompt)>>, system_prompt |-> DefaultPrompt,
                calls |-> 0],
     hist |-> [raising |-> "none", uncaught |-> "none", overflow |-> FALSE,
               goodbyes |-> 0, shutdowns |-> 0, tts_shutdowns |-> 0,
               stale |-> FALSE, tts_error |-> FALSE,
               speaking |-> FALSE, repeated |-> FALSE,
               exit_heard |-> FALSE, uttered |-> 0, presses |-> 0]]

Started == start_wake_word_listening(Constructed)

Init ==
    /\ agent = Started.agent
    /\ stt = Started.stt
    /\ tts = Started.tts
    /\ qt = Started.qt
    /\ brain = Started.brain
    /\ hist = Started.hist
    /\ fs = [dirs |-> {}, files |-> {},
             last |-> [op |-> "none", recursive |-> FALSE, success |-> FALSE, removed |-> 0]]

\* the step of a handler that ends in world r
Commit(r) ==
    /\ ~r.hist.overflow
    /\ agent' = r.agent
    /\ stt' = r.stt
    /\ tts' = r.tts
    /\ qt' = r.qt
    /\ brain' = r.brain
    /\ hist' = [r.hist EXCEPT !.raising = "none"]
    /\ fs' = fs

\* the process ends: its daemon threads, their queues and the event queue go
ProcessEnd(w, how) ==
    [w EXCEPT !.qt.app = how, !.qt.mainq = << >>,
              !.stt.workers = EmptyBag, !.stt.audio_queue = << >>,
              !.tts.pc = "dead", !.tts.speech_queue = << >>]

\* a slot of the main thread: an exception that leaves it either ends the
\* process (PyQt's default, qFatal) or is printed and the event loop goes on
Slot(r) ==
    \E abort \in (IF Raised(r) THEN BOOLEAN ELSE {FALSE}) :
        Commit(IF abort THEN ProcessEnd(r, "aborted") ELSE r)

Alive == qt.app \in {"running", "quit"}

\* the user speaks while the background listener captures
Utter(max) ==
    /\ Alive /\ stt.capturing /\ hist.uttered < max
    /\ \E u \in Utterances :
          Commit([World EXCEPT !.stt.audio_queue = Append(@, u), !.hist.uttered = @ + 1])

MicPress ==
    /\ qt.app = "running" /\ hist.presses < MaxPress
    /\ Slot(toggle_listening([World EXCEPT !.hist.presses = @ + 1]))

\* the main thread delivers a queued signal (speaking_signal, activate_signal)
Dispatch ==
    /\ qt.app = "running" /\ qt.mainq # << >>
    /\ LET ev == Head(qt.mainq)
           a == [World EXCEPT !.qt.mainq = Tail(@)]
       IN  Slot(CASE ev = "activate" -> delayed_activate_listening(a)
                  [] ev = "speaking_true" -> on_speaking_changed(a, TRUE)
                  [] OTHER -> on_speaking_changed(a, FALSE))

RestartTimeout ==
    /\ qt.app = "running" /\ agent.restart_timer
    /\ Slot(auto_restart_listening([World EXCEPT !.agent.restart_timer = FALSE]))

ActivationTimeout ==
    /\ qt.app = "running" /\ qt.act_timers > 0
    /\ Slot(activate_listening([World EXCEPT !.qt.act_timers = @ - 1]))

\* the single-shot of exit_application fires
ShutdownTimeout ==
    /\ qt.app = "running" /\ qt.exit_timers > 0
    /\ Slot(perform_shutdown([World EXCEPT !.qt.exit_timers = @ - 1]))

\* main() after QApplication.quit() ended app.exec_(): agent.shutdown(), sys.exit
MainExit ==
    /\ qt.app = "quit"
    /\ Commit(ProcessEnd(shutdown(World), "exited"))

\* the user closes the window: app.exec_() returns and main() goes on to
\* agent.shutdown() and sys.exit
CloseWindow ==
    /\ qt.app = "running"
    /\ Commit(ProcessEnd(shutdown(World), "exited"))

Threads == BagToSet(stt.workers)

WorkerGet ==
    /\ Alive /\ ~stt.stop_event /\ stt.audio_queue # << >>
    /\ \E t \in Threads, heard \in Heard :
          t.pc = "idle" /\ Commit(process_audio_get(World, t, heard))

WorkerCallback ==
    /\ Alive
    /\ \E t \in Threads : t.pc = "rec" /\ Commit(process_audio_callback(World, t))

WorkerStop ==
    /\ Alive
    /\ \E t \in Threads : t.pc = "stopping" /\ Commit(on_speech_recognized_stops(World, t))

WorkerExit ==
    /\ Alive /\ stt.stop_event
    /\ \E t \in Threads : t.pc = "idle" /\ Commit(process_audio_exit(World, t))

\* what the OpenAI call of one process_input does
ToolOutcomes(tools) ==
    [raises : {FALSE}, content : {NormalReply, EmptyReply, BlankReply, NoneText},
     tools : tools]
        \cup [raises : {TRUE}, content : {NoneText}, tools : tools]

\* the replies the controller is run with: the model answers in text
ApiOutcomes == ToolOutcomes({0})

PlannerReturn ==
    /\ Alive
    /\ \E t \in Threads, api \in ApiOutcomes :
          t.pc = "planner" /\ Commit(process_input_returns(World, t, api))

TtsDequeue ==
    /\ Alive /\ tts.pc = "idle" /\ ~tts.stop_event /\ tts.speech_queue # << >>
    /\ Commit(worker_dequeue(World))

TtsPopen ==
    /\ Alive /\ tts.pc = "got"
    /\ \E popen_ok \in BOOLEAN : Commit(worker_popen(World, popen_ok))

TtsFinish ==
    /\ Alive /\ tts.pc = "playing"
    /\ Commit(worker_finish(World))

TtsExit ==
    /\ Alive /\ tts.pc = "idle" /\ tts.stop_event
    /\ Commit([World EXCEPT !.tts.pc = "dead"])

System ==
    \/ Dispatch
    \/ RestartTimeout
    \/ ActivationTimeout
    \/ WorkerGet
    \/ WorkerCallback
    \/ WorkerExit
    \/ TtsDequeue
    \/ TtsPopen
    \/ TtsFinish

Next ==
    \/ Utter(MaxUtter)
    \/ MicPress
    \/ CloseWindow
    \/ ShutdownTimeout
    \/ MainExit
    \/ WorkerStop
    \/ PlannerReturn
    \/ TtsExit
    \/ System

Spec == Init /\ [][Next]_vars

\* the same machine with one more utterance
LongNext ==
    \/ Utter(LongUtter)
    \/ MicPress
    \/ CloseWindow
    \/ ShutdownTimeout
    \/ MainExit
    \/ WorkerStop
    \/ PlannerReturn
    \/ TtsExit
    \/ System

LongSpec == Init /\ [][LongNext]_vars

\* The user acts only in wake-word mode, and then leaves the controller alone.
\* The main thread's event loop delivers queued signals and fires its timers,
\* and the worker threads keep running.
LiveNext ==
    \/ (agent.wake_word_mode /\ Utter(MaxUtter))
    \/ (agent.wake_word_mode /\ MicPress)
    \/ System

LiveSpec ==
    /\ Init
    /\ [][LiveNext]_vars
    /\ WF_vars(Dispatch)
    /\ WF_vars(RestartTimeout)
    /\ WF_vars(ActivationTimeout)
    /\ WF_vars(WorkerGet)
    /\ WF_vars(WorkerCallback)
    /\ WF_vars(WorkerExit)
    /\ WF_vars(TtsDequeue)
    /\ WF_vars(TtsPopen)
    /\ WF_vars(TtsFinish)

\* AgentBrain alone: a sequence of process_input calls, each run to its end
BrainCall ==
    /\ brain.calls < MaxCalls
    /\ \E api \in ToolOutcomes(0..MaxTools) :
          brain' = [brain EXCEPT
                       !.history = process_input_end(process_input_begin(@), api),
                       !.calls = @ + 1]
    /\ UNCHANGED <<agent, stt, tts, qt, hist, fs>>

\* a caller clears the history
BrainClear ==
    /\ brain' = clear_history(brain)
    /\ UNCHANGED <<agent, stt, tts, qt, hist, fs>>

\* a caller sets a system prompt
BrainPrompt ==
    /\ \E prompt \in Prompts : brain' = set_system_prompt(brain, prompt)
    /\ UNCHANGED <<agent, stt, tts, qt, hist, fs>>

BrainNext ==
    \/ BrainCall
    \/ BrainClear
    \/ BrainPrompt

BrainSpec == Init /\ [][BrainNext]_vars

\* WindsurfController alone: the file tools, on a disk of at most MaxEntries
\* entries
FsStep(f) ==
    /\ Cardinality(f.dirs \cup f.files) <= MaxEntries
    /\ fs' = f
    /\ UNCHANGED <<agent, stt, tts, qt, brain, hist>>

FsCreateFolder == \E p \in Paths : FsStep(create_folder(fs, p))
FsCreateFile == \E p \in Paths : FsStep(create_file(fs, p))
FsDeleteFile == \E p \in Paths : FsStep(delete_file(fs, p))
FsDeleteFolder == \E p \in Paths, recursive \in BOOLEAN : FsStep(delete_folder(fs, p, recursive))

FsNext ==
    \/ FsCreateFolder
    \/ FsCreateFile
    \/ FsDeleteFile
    \/ FsDeleteFolder

FsSpec == Init /\ [][FsNext]_vars

(* ------------------------------ claims -------------------------------- *)

CommandCallback == "on_speech_recognized"

\* Planner calls (brain.process_input) in flight
InFlight == CopiesIn([pc |-> "planner", cb |-> CommandCallback, text |-> ""], stt.workers)

\* a wake word was recognized and its activation has not fired yet
WakePending == qt.act_timers > 0 \/ \E i \in 1..Len(qt.mainq) : qt.mainq[i] = "activate"

ActiveListening ==
    /\ agent.is_listening /\ ~agent.wake_word_mode
    /\ stt.is_listening
    /\ \E t \in Threads : t.cb = CommandCallback

\* C1: at most one Planner call is in flight at any time.
C1_AtMostOnePlannerCall == InFlight <= 1

\* C2: in active listening, a recognized utterance with an exit keyword always
\* takes the exit path (goodbye enqueued, shutdown scheduled), also while
\* is_processing is true.
C2_ExitBeforeProcessingGuard ==
    [][\A t \in Threads :
          (/\ t.pc = "rec" /\ t.cb = CommandCallback /\ check_exit_keywords(t.text)
           /\ agent.is_listening /\ ~agent.wake_word_mode
           /\ Commit(process_audio_callback(World, t)))
          => (hist.goodbyes' = hist.goodbyes + 1 /\ qt.exit_timers' = qt.exit_timers + 1)]_vars

\* C3: exit utterances lead to one goodbye utterance and one run of the
\* terminal shutdown sequence, never more.
C3_OneGoodbyeOneShutdown == hist.goodbyes <= 1 /\ hist.shutdowns <= 1

\* C4: once an exit keyword was recognized, no Planner call is started.
C4_NoPlannerAfterExit == [][hist.exit_heard => InFlight' <= InFlight]_vars

\* C5: while the activation of a recognized wake word is pending, no step of
\* the controller (a mic press aside) re-arms transcription.
C5_NoRearmBeforeDelay ==
    [][(WakePending' /\ hist.presses' = hist.presses)
          => ~(~stt.is_listening /\ stt.is_listening')]_vars

\* C6: after a wake word is recognized and the user does nothing more, the
\* controller reaches active listening: is_listening true, wake_word_mode false,
\* transcription active with the command callback.
C6_WakeLeadsToActiveListening == WakePending ~> ActiveListening

C6_Witness == ActiveListening /\ ~WakePending /\ tts.speech_queue = << >> /\ tts.pc = "idle"

\* the handler has ended
Settle(w) == [w EXCEPT !.hist.raising = "none"]

\* C7: in every state, a second stop_listening right after a first one changes
\* nothing (flags, timers, both services) and raises nothing.
C7_StopIdempotent ==
    qt.app = "running" =>
        LET once == Settle(stop_listening(World))
        IN  stop_listening(once) = once

\* a stop that acted (and raised), and later a second one that did nothing, so
\* that shutdown() went on to tts.shutdown()
C7_Witness ==
    qt.app = "exited" /\ hist.uncaught = "AttributeError" /\ hist.tts_shutdowns = 1

\* C8: a mic press that asks to stop completes without error and leaves
\* transcription stopped, synthesis stopped with an empty queue and no pending
\* re-arm.
C8_StopRequestCompletes ==
    [][(/\ qt.app = "running" /\ agent.is_listening /\ ~agent.wake_word_mode
        /\ hist.presses' = hist.presses + 1)
       => (/\ hist.uncaught' = hist.uncaught /\ qt.app' = "running"
           /\ ~stt.is_listening'
           /\ tts.speech_queue' = << >> /\ tts.current_process' = "none"
           /\ ~agent.restart_timer' /\ qt.act_timers' = 0)]_vars

FailedCall == [raises |-> TRUE, content |-> NoneText, tools |-> 0]

NormalCall == [raises |-> FALSE, content |-> NormalReply, tools |-> 0]

\* C9: when the Planner call fails, nothing is raised in the controller, the
\* apology is enqueued for synthesis, and the controller, both services and the
\* pending events are left exactly as a normal reply leaves them.
C9_PlannerFailureIsSpoken ==
    \A t \in Threads :
        t.pc = "planner" =>
            LET f == process_input_returns(World, t, FailedCall)
                n == process_input_returns(World, t, NormalCall)
            IN  /\ ~Raised(f)
                /\ f.tts.speech_queue = Append(tts.speech_queue, Apology)
                /\ n.tts.speech_queue = Append(tts.speech_queue, NormalReply)
                /\ [f EXCEPT !.tts.speech_queue = << >>, !.brain = brain]
                      = [n EXCEPT !.tts.speech_queue = << >>, !.brain = brain]

\* the apology was enqueued and the worker thread that called the Planner went on
C9_Witness ==
    /\ \E i \in 1..Len(tts.speech_queue) : tts.speech_queue[i] = Apology
    /\ InFlight = 0 /\ agent.is_processing /\ hist.uncaught = "none"

\* C10: whatever the Planner call returns, synthesis begins: the reply is
\* enqueued for the synthesis worker.
C10_ReplyAlwaysSpoken ==
    [][(InFlight' < InFlight /\ Alive')
          => Len(tts.speech_queue') = Len(tts.speech_queue) + 1]_vars

\* nothing is pending: no queued signal, no timer, no text to speak, no audio
\* buffer, and every worker thread waits in its loop
Quiet ==
    /\ qt.mainq = << >> /\ ~agent.restart_timer /\ qt.act_timers = 0 /\ qt.exit_timers = 0
    /\ tts.speech_queue = << >> /\ tts.pc = "idle"
    /\ stt.audio_queue = << >> /\ \A t \in Threads : t.pc = "idle"

\* C11: a command recognized in active listening (auto_listen true, the user
\* doing nothing else) goes through Processing and Speaking and ends in active
\* listening: when everything has settled, transcription is active again.
C11_CommandCycleReturnsToListening ==
    (/\ qt.app = "running" /\ Quiet /\ agent.auto_listen
     /\ hist.presses = 0 /\ ~hist.exit_heard /\ hist.uncaught = "none")
        => ActiveListening

\* C12: transcription is never active while synthesis plays or has text queued.
C12_MicSpeakerNeverOverlap ==
    Alive => ~(stt.is_listening
               /\ (tts.speech_queue # << >> \/ tts.current_process = "running"))

Flags == <<agent.is_listening, agent.is_processing, agent.wake_word_mode, agent.auto_listen>>

\* C13: a text callback run by a recognition worker thread only hands an event
\* over: it leaves is_listening, is_processing, wake_word_mode and auto_listen
\* as they are.
C13_CallbacksOnlyHandOver ==
    [][\A t \in Threads :
          (t.pc = "rec" /\ Commit(process_audio_callback(World, t))) => Flags' = Flags]_vars

\* C14: at most one deferred re-arm of listening is pending, restart_timer and
\* the activation single-shots counted together.
C14_AtMostOneDeferredRearm ==
    Alive => (IF agent.restart_timer THEN 1 ELSE 0) + qt.act_timers <= 1

\* C15: a requested shutdown stops transcription and reaches
\* TextToSpeech.shutdown before the process exits, and perform_shutdown reaches
\* QApplication.quit.
C15_ShutdownStopsServices ==
    /\ hist.shutdowns > 0 => qt.app \in {"quit", "exited"}
    /\ qt.app \in {"quit", "exited"} => (hist.tts_shutdowns > 0 /\ ~stt.is_listening)

IsSpeakingEvent(e) == e \in {"speaking_true", "speaking_false"}

SpeakingEvents == SelectSeq(qt.mainq, IsSpeakingEvent)

\* C16: also when playback fails, the worker has handed over speaking(False)
\* for every text it took (the last notification queued is never a
\* speaking(True) once the worker is back in its loop), and it keeps running
\* until it is shut down.
C16_FailedPlaybackStillNotifies ==
    Alive =>
        /\ tts.pc = "idle" =>
              (SpeakingEvents = << >> \/ SpeakingEvents[Len(SpeakingEvents)] = "speaking_false")
        /\ ~tts.stop_event => tts.pc # "dead"

\* playback of a text failed, its speaking(False) was delivered and cleared
\* is_processing, and the worker waits for the next text
C16_Witness ==
    /\ hist.tts_error /\ tts.pc = "idle" /\ qt.mainq = << >>
    /\ ~agent.is_processing /\ agent.restart_timer /\ qt.app = "running"

\* C17: a recognition transport error changes the status string and nothing
\* else: the flags, the timers, the pending events and both services stay (the
\* worker has taken the failing buffer off the audio queue).
C17_SttErrorOnlySetsStatus ==
    [][\A t \in Threads :
          (/\ t.pc = "idle" /\ stt.audio_queue # << >>
           /\ Commit(process_audio_get(World, t, "RequestError")))
          => (/\ agent' = [agent EXCEPT !.status = "Error - Check microphone"]
              /\ stt' = [stt EXCEPT !.audio_queue = Tail(@)]
              /\ tts' = tts /\ qt' = qt)]_vars

\* the error status is shown and the controller still listens
C17_Witness ==
    /\ agent.status = "Error - Check microphone"
    /\ agent.is_listening /\ stt.is_listening /\ qt.app = "running"

\* C18: once SpeechToText.stop_listening has returned, no text callback is
\* invoked: a callback runs only while the service is listening.
C18_NoCallbackAfterStop ==
    [][(\E t \in Threads :
           /\ t.pc = "rec" /\ strip(Chars(t.text)) # << >>
           /\ Commit(process_audio_callback(World, t)))
       => stt.is_listening]_vars

\* C19: no text enqueued before a stop_speaking plays after it has returned.
C19_NothingPlaysAfterStop ==
    ~(Alive /\ tts.current_process = "running" /\ hist.stale)

\* C20: conversation_history never holds more than max_history messages.
C20_HistoryBounded == Len(brain.history) <= max_history

\* C21: the first message of conversation_history is the system message with
\* the current system prompt, and no later message has role "system".
C21_SystemMessagePreserved ==
    /\ brain.history # << >>
    /\ brain.history[1] = SystemMsg(brain.system_prompt)
    /\ \A i \in 2..Len(brain.history) : brain.history[i].role # "system"

\* a history that was truncated (its second message is no longer a user
\* message) under a prompt a caller has set
C21_Witness ==
    /\ Len(brain.history) >= max_history
    /\ brain.history[2].role # "user"
    /\ brain.system_prompt = OtherPrompt
    /\ brain.history[1] = SystemMsg(OtherPrompt)

\* C22: delete_folder on an existing directory that is not empty: without
\* recursive it returns success=False and the disk is as before; with
\* recursive it returns success=True and nothing at or below the path is left.
C22_DeleteFolderNonEmpty ==
    [][\A p \in Paths, recursive \in BOOLEAN :
          (isdir(fs, p) /\ listdir(fs, p) # {} /\ FsStep(delete_folder(fs, p, recursive)))
          => IF recursive
             THEN fs'.last.success /\ \A q \in Paths : IsPrefix(p, q) => ~path_exists(fs', q)
             ELSE ~fs'.last.success /\ fs'.dirs = fs.dirs /\ fs'.files = fs.files]_vars

\* a recursive delete_folder has just removed a directory and what was in it
C22_Witness ==
    /\ fs.last.op = "delete_folder" /\ fs.last.recursive /\ fs.last.success
    /\ fs.last.removed = MaxEntries

\* C23: while a Planner call is in flight (is_processing true, process_input
\* not yet returned) the transcription service is stopped.
C23_NoListeningWhileThinking ==
    (Alive /\ InFlight > 0 /\ agent.is_processing) => ~stt.is_listening

\* C24: a mic press in wake-word-only listening (wake_word_mode and
\* is_listening true) switches to active command listening: the transcription
\* service is armed with on_speech_recognized, auto_listen is true and the
\* status is "Listening...".
C24_MicPressLeavesWakeMode ==
    [][(agent.wake_word_mode /\ agent.is_listening /\ MicPress)
       => /\ stt'.is_listening
          /\ \E t \in BagToSet(stt'.workers) : t.pc = "idle" /\ t.cb = CommandCallback
          /\ agent'.auto_listen
          /\ agent'.status = "Listening..."]_vars

\* C25: a recognized text that arrives while is_processing is true is dropped
\* (its callback starts no Planner call and queues nothing to speak), and the
\* texts that reach the Planner are handled one after the other, in the order
\* of their arrival: a Planner call starts only when none is in flight.
C25_DroppedWhileProcessing ==
    [][/\ \A t \in Threads :
             (t.pc = "rec" /\ agent.is_processing /\ Commit(process_audio_callback(World, t)))
             => (InFlight' = InFlight /\ tts'.speech_queue = tts.speech_queue)
       /\ InFlight' > InFlight => InFlight = 0]_vars

\* C26: while the transcription service runs (its stop_event is clear) at most
\* one recognition worker is live, and no live worker holds a callback other
\* than the one of the most recent start_listening: a stop_listening followed
\* by a start_listening leaves no earlier worker running.
C26_OneRecognitionWorker ==
    (Alive /\ ~stt.stop_event)
        => /\ BagCardinality(stt.workers) <= 1
           /\ \A t, u \in Threads : t.cb = u.cb

\* C27: the speaking notifications of TextToSpeech alternate, starting with
\* speaking(True): no notification is given twice in a row, and the last one
\* given is speaking(True) exactly while the worker holds a text.
C27_SpeakingAlternates ==
    /\ ~hist.repeated
    /\ Alive => (hist.speaking <=> tts.pc \in {"got", "playing"})

\* shutdown came while the worker held a text, and the worker has notified
\* the end of that text
C27_Witness ==
    /\ hist.tts_shutdowns > 0 /\ tts.pc = "idle" /\ tts.stop_event
    /\ SpeakingEvents # << >>
    /\ SpeakingEvents[Len(SpeakingEvents)] = "speaking_false"
    /\ ~hist.speaking

\* a recognition worker is inside on_speech_recognized
MidHandler == \E t \in Threads : t.pc \in {"stopping", "planner"}

\* C28: whenever no controller handler is in the middle of its execution,
\* VoiceAgent.is_listening is true exactly when SpeechToText.is_listening is.
C28_ListeningFlagsAgree ==
    (Alive /\ ~MidHandler) => (agent.is_listening <=> stt.is_listening)

\* C29: wake_word_mode is true at construction and, once false, is never set
\* back to true by any event.
C29_WakeWordModeMonotone ==
    /\ agent.wake_word_mode
    /\ [][~agent.wake_word_mode => ~agent'.wake_word_mode]_vars

\* speaking has ended in active mode with nothing to re-arm: the status is
\* "Ready", not the wake-word prompt
C29_Witness ==
    /\ ~agent.wake_word_mode /\ agent.status = "Ready" /\ qt.app = "running"
    /\ tts.pc = "idle" /\ tts.speech_queue = << >>

\* C30: every message with role "tool" in conversation_history comes after
\* the assistant message that carried its tool call, with only tool results of
\* that message in between.
C30_ToolResultsKeepTheirCall ==
    \A i \in 1..Len(brain.history) :
        brain.history[i].role = "tool"
        => \E j \in 1..(i - 1) :
              /\ brain.history[j].role = "assistant"
              /\ brain.history[j].tool_calls >= i - j
              /\ \A k \in (j + 1)..i : brain.history[k].role = "tool"

====
